---- MODULE Spec2Model ----
(***************************************************************************)
(* Logtopus: a logging facade that filters leveled log events by an       *)
(* active threshold and fans them out to a registry of logger backends.   *)
(* The model follows the Logtopus class: its constructor (with            *)
(* loadLogger), setLevel, getLevel, addLogger, removeLogger, writeLog,    *)
(* the convenience methods, flush and timer.                              *)
(***************************************************************************)
EXTENDS Integers, Sequences, FiniteSets, TLC

\* ------------------------------------------------------------------ bounds

\* Most backend instances ever constructed in one run.
MaxInst == 2
\* Most dispatches that pass the filter while some backend is registered.
MaxCalls == 2
\* Largest numeric conf.level handed to the constructor.
MaxConfLevel == 8

\* ------------------------------------------------------- JavaScript values

\* A value of the kinds the level lookups produce: a number, undefined, or a
\* function (an inherited member of Object.prototype).
Undefined == [tag |-> "undefined", n |-> 0]
Num(n) == [tag |-> "number", n |-> n]
FunctionValue == [tag |-> "function", n |-> 0]

\* ToBoolean of such a value: 0 and undefined are falsy.
Truthy(v) == v.tag = "function" \/ (v.tag = "number" /\ v.n # 0)

\* a > b on such values: a comparison with a non-number (NaN) is false.
GreaterThan(a, b) == a.tag = "number" /\ b.tag = "number" /\ a.n > b.n

\* ------------------------------------------------------------- level table

LevelNames == {"error", "warn", "sys", "req", "res", "info", "debug"}

\* this.__definedLogLevels, an object literal.
definedLogLevels ==
  [k \in LevelNames |->
    CASE k = "error" -> 1
      [] k = "warn" -> 2
      [] k = "sys" -> 3
      [] k = "req" -> 4
      [] k = "res" -> 5
      [] k = "info" -> 6
      [] k = "debug" -> 7]

\* Members every object literal inherits from Object.prototype.
ObjectPrototypeKeys == {"constructor"}

\* this.__definedLogLevels[key]: an own property, an inherited one, or undefined.
LevelLookup(key) ==
  IF key \in LevelNames THEN Num(definedLogLevels[key])
  ELSE IF key \in ObjectPrototypeKeys THEN FunctionValue
  ELSE Undefined

\* process.env.NODE_ENV: the tags the constructor tells apart, one other tag,
\* and the variable being unset.
NodeEnvs == {"production", "staging", "qa", "test", "development", "unset"}

\* this.__environmentDefault as the constructor computes it.
EnvironmentDefault(env) ==
  IF env = "production" THEN 3
  ELSE IF env = "staging" THEN 5
  ELSE IF env = "qa" THEN 5
  ELSE IF env = "test" THEN 1
  ELSE 6

\* ---------------------------------------------------------------- backends

\* Names a backend is registered under.
LoggerNames == {"console", "file"}

\* Backend classes: what their constructor, log() and flush() do.
\*   ConsoleLogger: log() returns, no flush method.
\*   FileLogger:    log() returns, flush() returns a promise.
\*   FaultyLogger:  log() raises, flush() raises.
\*   BrokenLogger:  its constructor raises.
LoggerClasses == {"ConsoleLogger", "FileLogger", "FaultyLogger", "BrokenLogger"}

CtorRaises(cls) == cls = "BrokenLogger"
LogRaises(cls) == cls = "FaultyLogger"
\* "none": typeof logger.flush # 'function'; "promise": flush() returns a
\* promise; "raises": flush() throws synchronously.
FlushKind(cls) ==
  IF cls = "FileLogger" THEN "promise"
  ELSE IF cls = "FaultyLogger" THEN "raises"
  ELSE "none"

\* What superimport yields for a module: a class, or a failure to resolve.
ModuleNotFound == "ModuleNotFound"

\* -------------------------------------------------------------------- state

VARIABLES
  logLevel,            \* this.__logLevel, the active threshold
  prevLevel,           \* the threshold before the last call (history)
  debugMode,           \* this.debugMode, the diagnostics flag
  nodeEnv,             \* process.env.NODE_ENV when the facade was constructed
  environmentDefault,  \* this.__environmentDefault
  logger,              \* this.__logger: a Map, as its entries in insertion order
  instances,           \* the class of every backend instance constructed so far
  logCalls,            \* per instance: how often its log() was invoked
  expected,            \* per instance: dispatches that passed the filter while it was registered (history)
  delivered,           \* the last call's fan-out: <<[inst, message, event]>> in invocation order,
                       \* message being the msg argument of the call (history)
  flushArr,            \* the last flush(): the promises it collected, [inst, state]
  flushInvoked,        \* the last call's flush() invocations, in order (history)
  flushResult,         \* the last flush(): the state of the promise it returned
  timerHandle,         \* the handle the last timer() call returned
  loadPlan,            \* what the constructor was to load: <<[name, cls]>>, until the first call (history)
  last                 \* the last call: what it was and how it ended (history)

vars == <<logLevel, prevLevel, debugMode, nodeEnv, environmentDefault, logger,
          instances, logCalls, expected, delivered, flushArr, flushInvoked,
          flushResult, timerHandle, loadPlan, last>>

\* The record of a call: its name, its first argument, the class handed to
\* addLogger, whether the name was registered before the call, whether the call
\* changed the threshold or the registry, whether it raised to its caller, and
\* what it returned.
Call(op, arg, cls, had, raised, returned) ==
  [op |-> op, arg |-> arg, cls |-> cls, had |-> had, changed |-> FALSE,
   raised |-> raised, returned |-> IF raised THEN "exception" ELSE returned]

Changing(call, changed) == [call EXCEPT !.changed = changed]

\* ------------------------------------------------------------ registry (Map)

\* Map.prototype.has
Has(lg, name) == \E k \in 1..Len(lg) : lg[k].name = name

\* A set that drops the entries of the other keys.
MapSetAlone(lg, name, inst) == <<[name |-> name, inst |-> inst]>>

\* Map.prototype.set of a key that is not present: appended in insertion order.
MapSet(lg, name, inst) == Append(lg, [name |-> name, inst |-> inst])

\* A delete that removes nothing.
MapDeleteKeepsEntry(lg, name) == lg

\* Map.prototype.delete
MapDelete(lg, name) == SelectSeq(lg, LAMBDA e : e.name # name)

\* The instances a registry holds.
Registered(lg) == {lg[k].inst : k \in 1..Len(lg)}

\* addLogger(name, LoggerClass) on a registry and the instances constructed so
\* far. On a registered name it returns early; in debug mode the notice it
\* prints reads err.stack where no err is in scope, which raises a
\* ReferenceError. Otherwise it constructs one instance and stores it.
AddLoggerTo(lg, insts, dbg, name, cls) ==
  IF Has(lg, name)
    THEN [logger |-> lg, instances |-> insts, raised |-> dbg]
  ELSE IF CtorRaises(cls)
    THEN [logger |-> lg, instances |-> insts, raised |-> TRUE]
  ELSE [logger |-> MapSet(lg, name, Len(insts) + 1),
        instances |-> Append(insts, cls), raised |-> FALSE]

\* A loadLogger without the try block: the first failure leaves the loop and
\* reaches the caller.
RECURSIVE LoadLoggerAborts(_, _, _, _, _)
LoadLoggerAborts(names, resolver, dbg, lg, insts) ==
  IF names = <<>> THEN [logger |-> lg, instances |-> insts, raised |-> FALSE]
  ELSE LET name == Head(names)
           cls == resolver[name]
           added == IF cls = ModuleNotFound
                      THEN [logger |-> lg, instances |-> insts, raised |-> TRUE]
                      ELSE AddLoggerTo(lg, insts, dbg, name, cls)
       IN IF added.raised
            THEN [logger |-> lg, instances |-> insts, raised |-> TRUE]
            ELSE LoadLoggerAborts(Tail(names), resolver, dbg, added.logger, added.instances)

\* loadLogger(): for every key of conf.logger, in order, resolve the module and
\* add the backend; whatever raises inside the try block is caught, so the loop
\* goes on with the next key and nothing reaches the caller.
RECURSIVE LoadLogger(_, _, _, _, _)
LoadLogger(names, resolver, dbg, lg, insts) ==
  IF names = <<>> THEN [logger |-> lg, instances |-> insts, raised |-> FALSE]
  ELSE LET name == Head(names)
           cls == resolver[name]
           added == IF cls = ModuleNotFound
                      THEN [logger |-> lg, instances |-> insts, raised |-> TRUE]
                      ELSE AddLoggerTo(lg, insts, dbg, name, cls)
       IN LoadLogger(Tail(names), resolver, dbg, added.logger, added.instances)

\* config(conf): a conf without logger gets the default pair of backends.
DefaultLoggerConf == <<"console", "file">>
Config(conf) == IF conf.hasLogger THEN conf.logger ELSE DefaultLoggerConf

\* A constructor that falls back to info in place of sys.
InitialLevelInfo(level) == IF Truthy(level) THEN level ELSE Num(definedLogLevels["info"])

\* conf.level || 3
InitialLevel(level) == IF Truthy(level) THEN level ELSE Num(3)

\* conf.debugMode || !!process.env.LOGTOPUS_DEBUG
InitialDebugMode(confDebug, envDebug) == confDebug \/ envDebug

\* ------------------------------------------------------ construction inputs

ConfLevels == {Undefined} \cup {Num(n) : n \in 0..MaxConfLevel}

\* Object.keys(conf.logger): sequences of distinct names.
LoggerKeys ==
  {<<>>} \cup {<<a>> : a \in LoggerNames}
        \cup {<<a, b>> : <<a, b>> \in {p \in LoggerNames \X LoggerNames : p[1] # p[2]}}

Confs ==
  {[level |-> l, debugMode |-> d, hasLogger |-> h, logger |-> k] :
     l \in ConfLevels, d \in BOOLEAN, h \in BOOLEAN, k \in LoggerKeys}

\* superimport of the module named after each key (the key hyphenated at its
\* capitals, between 'logtopus-' and '-logger'): a class or a failure per key.
Resolvers == [LoggerNames -> LoggerClasses \cup {ModuleNotFound}]

Zeros(n) == [k \in 1..n |-> 0]

\* new Logtopus(conf) under LOGTOPUS_DEBUG, NODE_ENV and a module resolver.
Construct(conf, envDebug, env, resolver) ==
  LET dbg == InitialDebugMode(conf.debugMode, envDebug)
      loaded == LoadLogger(Config(conf), resolver, dbg, <<>>, <<>>)
  IN /\ (~conf.hasLogger => conf.logger = <<>>)
     /\ logLevel = InitialLevel(conf.level)
     /\ prevLevel = InitialLevel(conf.level)
     /\ debugMode = dbg
     /\ nodeEnv = env
     /\ environmentDefault = EnvironmentDefault(env)
     /\ logger = loaded.logger
     /\ instances = loaded.instances
     /\ logCalls = Zeros(Len(loaded.instances))
     /\ expected = Zeros(Len(loaded.instances))
     /\ delivered = <<>>
     /\ flushArr = <<>>
     /\ flushInvoked = <<>>
     /\ flushResult = "none"
     /\ timerHandle = [kind |-> "none", message |-> <<>>]
     /\ loadPlan = [k \in 1..Len(Config(conf)) |->
                      [name |-> Config(conf)[k], cls |-> resolver[Config(conf)[k]]]]
     /\ last = Call("constructor", "", "", FALSE, loaded.raised, "this")

\* Every construction.
Init ==
  \E conf \in Confs, envDebug \in BOOLEAN, env \in NodeEnvs, resolver \in Resolvers :
    Construct(conf, envDebug, env, resolver)

\* The constructions without conf.level, debug mode from the conf alone, and
\* NODE_ENV unset: the threshold starts at 3.
InitPlain ==
  \E conf \in {c \in Confs : c.level = Undefined}, resolver \in Resolvers :
    Construct(conf, FALSE, "unset", resolver)

\* The constructions without conf.level, under every NODE_ENV and debug mode.
InitNoLevel ==
  \E conf \in {c \in Confs : c.level = Undefined}, envDebug \in BOOLEAN,
     env \in NodeEnvs, resolver \in Resolvers :
    Construct(conf, envDebug, env, resolver)

\* The plain constructions with any conf.level.
InitAnyLevel ==
  \E conf \in Confs, resolver \in Resolvers : Construct(conf, FALSE, "unset", resolver)

\* What a call that does not dispatch, flush or start a timer leaves alone.
NoDispatch == delivered' = <<>> /\ UNCHANGED <<logCalls, expected>>
NoFlush == flushInvoked' = <<>> /\ UNCHANGED <<flushArr, flushResult>>
Fixed == UNCHANGED <<debugMode, nodeEnv, environmentDefault>> /\ loadPlan' = <<>>

\* ------------------------------------------------------- setLevel, getLevel

\* The argument of setLevel: a string, or no argument at all.
NoArgument == "(no argument)"
LevelArguments == LevelNames \cup {"verbose", "constructor", "", NoArgument}

\* if (level): no argument and the empty string are falsy.
ArgumentTruthy(level) == level \notin {NoArgument, ""}

\* A setLevel whose branch without argument leaves the threshold as it is.
SetLevelKeepsThreshold(level, lvl, envDefault) ==
  IF ArgumentTruthy(level)
    THEN IF ~Truthy(LevelLookup(level))
           THEN [logLevel |-> lvl, raised |-> TRUE]
           ELSE [logLevel |-> LevelLookup(level), raised |-> FALSE]
    ELSE [logLevel |-> lvl, raised |-> FALSE]

\* setLevel(level): the threshold after the call, and whether it raised.
SetLevelTo(level, lvl, envDefault) ==
  IF ArgumentTruthy(level)
    THEN IF ~Truthy(LevelLookup(level))
           THEN [logLevel |-> lvl, raised |-> TRUE]
           ELSE [logLevel |-> LevelLookup(level), raised |-> FALSE]
    ELSE [logLevel |-> Num(envDefault), raised |-> FALSE]

setLevel(level) ==
  LET r == SetLevelTo(level, logLevel, environmentDefault)
  IN /\ logLevel' = r.logLevel
     /\ prevLevel' = logLevel
     /\ last' = Changing(Call("setLevel", level, "", FALSE, r.raised, "this"),
                         r.logLevel # logLevel)
     /\ UNCHANGED <<logger, instances, timerHandle>>
     /\ NoDispatch /\ NoFlush /\ Fixed

\* getLevel(): the first key, in the table's order, whose rank === the
\* threshold; undefined when there is none.
LevelOrder == <<"error", "warn", "sys", "req", "res", "info", "debug">>
\* A getLevel that compares with <= in place of ===.
GetLevelAtMost(lvl) ==
  LET hits == {k \in 1..Len(LevelOrder) :
                 lvl.tag = "number" /\ definedLogLevels[LevelOrder[k]] <= lvl.n}
  IN IF hits = {} THEN "undefined"
     ELSE LevelOrder[CHOOSE k \in hits : \A j \in hits : k <= j]

GetLevelOf(lvl) ==
  LET hits == {k \in 1..Len(LevelOrder) : Num(definedLogLevels[LevelOrder[k]]) = lvl}
  IN IF hits = {} THEN "undefined"
     ELSE LevelOrder[CHOOSE k \in hits : \A j \in hits : k <= j]

getLevel ==
  /\ last' = Call("getLevel", "", "", FALSE, FALSE, GetLevelOf(logLevel))
  /\ prevLevel' = logLevel
  /\ UNCHANGED <<logLevel, logger, instances, timerHandle>>
  /\ NoDispatch /\ NoFlush /\ Fixed

\* ------------------------------------------------- addLogger, removeLogger

\* A run constructs at most MaxInst instances.
addLogger(name, LoggerClass) ==
  LET r == AddLoggerTo(logger, instances, debugMode, name, LoggerClass)
  IN /\ Len(r.instances) <= MaxInst
     /\ logger' = r.logger
     /\ instances' = r.instances
     /\ logCalls' = IF Len(r.instances) > Len(instances) THEN Append(logCalls, 0) ELSE logCalls
     /\ expected' = IF Len(r.instances) > Len(instances) THEN Append(expected, 0) ELSE expected
     /\ last' = Changing(Call("addLogger", name, LoggerClass, Has(logger, name),
                              r.raised, "this"),
                         r.logger # logger \/ r.instances # instances)
     /\ prevLevel' = logLevel
     /\ delivered' = <<>>
     /\ UNCHANGED <<logLevel, timerHandle>>
     /\ NoFlush /\ Fixed

removeLogger(name) ==
  /\ logger' = MapDelete(logger, name)
  /\ last' = Changing(Call("removeLogger", name, "", Has(logger, name), FALSE, "this"),
                      MapDelete(logger, name) # logger)
  /\ prevLevel' = logLevel
  /\ UNCHANGED <<logLevel, instances, timerHandle>>
  /\ NoDispatch /\ NoFlush /\ Fixed

\* ----------------------------------------------------------------- messages

\* A string is the sequence of its characters; ESC is \u001b.
ESC == "ESC"
IsDigit(c) == c \in {"0", "1", "2", "3", "4", "5", "6", "7", "8", "9"}

\* The first index from j on whose character is neither a digit nor ';'.
RECURSIVE SkipParams(_, _)
SkipParams(s, j) ==
  IF j <= Len(s) /\ (IsDigit(s[j]) \/ s[j] = ";") THEN SkipParams(s, j + 1) ELSE j

\* /\u001b\[(\d+;)*\d*m/ anchored at i: the index of the closing m, or 0 when
\* the pattern does not match there. Every ';' must follow a digit.
MatchEnd(s, i) ==
  IF i + 1 <= Len(s) /\ s[i] = ESC /\ s[i + 1] = "["
    THEN LET j == SkipParams(s, i + 2)
         IN IF /\ j <= Len(s)
               /\ s[j] = "m"
               /\ \A p \in (i + 2)..(j - 1) : s[p] = ";" => (p > i + 2 /\ IsDigit(s[p - 1]))
              THEN j ELSE 0
    ELSE 0

\* A replace without the g flag: the first match alone is removed.
RECURSIVE StripFirst(_, _)
StripFirst(s, i) ==
  IF i > Len(s) THEN <<>>
  ELSE IF MatchEnd(s, i) > 0 THEN SubSeq(s, MatchEnd(s, i) + 1, Len(s))
  ELSE <<s[i]>> \o StripFirst(s, i + 1)

\* msg.replace(/\u001b\[(\d+;)*\d*m/g, '') from index i on.
RECURSIVE StripFrom(_, _)
StripFrom(s, i) ==
  IF i > Len(s) THEN <<>>
  ELSE IF MatchEnd(s, i) > 0 THEN StripFrom(s, MatchEnd(s, i) + 1)
  ELSE <<s[i]>> \o StripFrom(s, i + 1)

StripAnsi(s) == StripFrom(s, 1)

\* The placeholder of a dispatch without message.
NoMessage == <<"No message">>

\* if (!msg): undefined and the empty string are falsy.
MessageOrDefault(msg) == IF msg = <<>> THEN NoMessage ELSE msg

\* ----------------------------------------------------------------- writeLog

\* The types a dispatch is called with: the level names and one other name.
Types == LevelNames \cup {"custom"}
\* What follows the type: no message (or '') and no data, or a message with
\* a colour sequence and one extra argument.
Payloads ==
  {[msg |-> <<>>, data |-> <<>>],
   [msg |-> <<ESC, "[", "3", "1", "m", "h", "i">>, data |-> <<"data">>]}

\* curLevel && curLevel > this.__logLevel
Filtered(type, lvl) ==
  LET curLevel == LevelLookup(type)
  IN Truthy(curLevel) /\ GreaterThan(curLevel, lvl)

\* The object literal handed to logger.log.
Event(type, msg, data) ==
  [type |-> type, msg |-> StripAnsi(msg), cmsg |-> msg, data |-> data]

\* The clock during one dispatch, counted from its start: Tick(k) is its value
\* when the k-th backend of the fan-out is invoked, Tick(0) its value before the
\* fan-out begins.
Tick(k) == k

\* A clock read inside the visitor, once per backend.
ReadingPerBackend(k) == Tick(k)

\* let time = new Date(); let uptime = process.uptime(): read once, before the
\* forEach; the visitor hands the same two values to the k-th backend.
Reading(k) == Tick(0)

\* The object literal as the k-th backend of the fan-out receives it.
Stamped(e, k) ==
  [type |-> e.type, msg |-> e.msg, cmsg |-> e.cmsg, data |-> e.data,
   time |-> Reading(k), uptime |-> Reading(k)]

\* this.__logger.forEach(logger => logger.log(...)): the instances whose log()
\* is invoked, in order. A log() that raises ends the iteration.
RECURSIVE Invoked(_, _)
Invoked(lg, insts) ==
  IF lg = <<>> THEN <<>>
  ELSE IF LogRaises(insts[Head(lg).inst]) THEN <<Head(lg).inst>>
  ELSE <<Head(lg).inst>> \o Invoked(Tail(lg), insts)

SeqRange(s) == {s[k] : k \in 1..Len(s)}

\* writeLog(type, msg, ...data) as a function of the facade's state: whether the
\* event was filtered, who was invoked with what, whether it raised, and what
\* it returned (this on the filtered path, nothing after the fan-out).
WriteLogOn(type, msg, data, lvl, lg, insts) ==
  IF Filtered(type, lvl)
    THEN [filtered |-> TRUE, invoked |-> <<>>, raised |-> FALSE, returned |-> "this",
          message |-> msg, event |-> Event(type, <<>>, <<>>)]
    ELSE LET inv == Invoked(lg, insts)
         IN [filtered |-> FALSE, invoked |-> inv,
             raised |-> \E i \in SeqRange(inv) : LogRaises(insts[i]),
             returned |-> "undefined",
             message |-> msg, event |-> Event(type, MessageOrDefault(msg), data)]

\* The effect of a dispatch on the state, shared by writeLog, the convenience
\* methods and the timer handle. A run holds at most MaxCalls dispatches that
\* pass the filter per registered backend.
Dispatch(r) ==
  /\ ~r.filtered => \A i \in Registered(logger) : expected[i] < MaxCalls
  /\ logCalls' = [i \in 1..Len(logCalls) |->
                    IF i \in SeqRange(r.invoked) THEN logCalls[i] + 1 ELSE logCalls[i]]
  /\ expected' = [i \in 1..Len(expected) |->
                    IF ~r.filtered /\ i \in Registered(logger)
                      THEN expected[i] + 1 ELSE expected[i]]
  /\ delivered' = [k \in 1..Len(r.invoked) |->
                     [inst |-> r.invoked[k], message |-> r.message,
                      event |-> Stamped(r.event, k)]]
  /\ prevLevel' = logLevel
  /\ UNCHANGED <<logLevel, logger, instances, timerHandle>>
  /\ NoFlush /\ Fixed

writeLog(type, msg, data) ==
  LET r == WriteLogOn(type, msg, data, logLevel, logger, instances)
  IN /\ Dispatch(r)
     /\ last' = Call("writeLog", type, "", FALSE, r.raised, r.returned)

\* debug, info, res, req, sys, warn, error: writeLog with the type put first,
\* then return this.
convenience(level, msg, data) ==
  LET r == WriteLogOn(level, msg, data, logLevel, logger, instances)
  IN /\ Dispatch(r)
     /\ last' = Call("convenience", level, "", FALSE, r.raised, "this")

\* -------------------------------------------------------------------- flush

\* this.__logger.forEach(...) of flush(): the backends whose flush() is invoked,
\* the promises pushed, and whether a flush() raised, which ends the iteration.
RECURSIVE FlushEach(_, _)
FlushEach(lg, insts) ==
  IF lg = <<>> THEN [invoked |-> <<>>, arr |-> <<>>, raised |-> FALSE]
  ELSE LET i == Head(lg).inst
           kind == FlushKind(insts[i])
           rest == FlushEach(Tail(lg), insts)
       IN IF kind = "none" THEN rest
          ELSE IF kind = "raises"
            THEN [invoked |-> <<i>>, arr |-> <<>>, raised |-> TRUE]
          ELSE [invoked |-> <<i>> \o rest.invoked,
                arr |-> <<[inst |-> i, state |-> "pending"]>> \o rest.arr,
                raised |-> rest.raised]

\* Promise.all over promises in these states: rejected as soon as one is,
\* resolved once all are, pending otherwise.
PromiseAll(arr) ==
  IF \E k \in 1..Len(arr) : arr[k].state = "rejected" THEN "rejected"
  ELSE IF \A k \in 1..Len(arr) : arr[k].state = "resolved" THEN "resolved"
  ELSE "pending"

\* Whether every promise of the last flush() has settled.
AllSettled(arr) == \A k \in 1..Len(arr) : arr[k].state # "pending"

\* flush(). One flush() is outstanding at a time: the next starts once the
\* promises of the last have settled.
flush ==
  LET r == FlushEach(logger, instances)
  IN /\ AllSettled(flushArr)
     /\ flushInvoked' = r.invoked
     /\ flushArr' = IF r.raised THEN <<>> ELSE r.arr
     /\ flushResult' = IF r.raised THEN "raised" ELSE PromiseAll(r.arr)
     /\ last' = Call("flush", "", "", FALSE, r.raised, "promise")
     /\ prevLevel' = logLevel
     /\ UNCHANGED <<logLevel, logger, instances, timerHandle>>
     /\ NoDispatch /\ Fixed

\* The promise a backend's flush() returned settles.
settle(k, outcome) ==
  /\ k \in 1..Len(flushArr)
  /\ flushArr[k].state = "pending"
  /\ flushArr' = [flushArr EXCEPT ![k].state = outcome]
  /\ flushResult' = IF flushResult = "pending" THEN PromiseAll(flushArr') ELSE flushResult
  /\ UNCHANGED <<logLevel, prevLevel, logger, instances, logCalls, expected,
                 delivered, flushInvoked, timerHandle, last>>
  /\ Fixed

\* -------------------------------------------------------------------- timer

\* The label handed to timer(): none (or ''), or a template.
TimerMessages == {<<>>, <<"elapsed: ", "%s">>}
\* The template handed to the handle's log().
LapMessages == {<<"lap">>}
\* What the stopwatch of logUtils reports.
ElapsedValues == {"3ms", "1s"}

\* util.format(message, value) for a single string value: the first %s is
\* replaced by it; without a placeholder it is appended after a space.
RECURSIVE Format(_, _)
Format(message, value) ==
  IF message = <<>> THEN <<" ", value>>
  ELSE IF Head(message) = "%s" THEN <<value>> \o Tail(message)
  ELSE <<Head(message)>> \o Format(Tail(message), value)

\* timer(message): a bare stopwatch without message, else a handle that logs.
timer(message) ==
  /\ timerHandle' = [kind |-> IF message = <<>> THEN "stopwatch" ELSE "labelled",
                     message |-> message]
  /\ last' = Call("timer", "", "", FALSE, FALSE, "handle")
  /\ prevLevel' = logLevel
  /\ UNCHANGED <<logLevel, logger, instances>>
  /\ NoDispatch /\ NoFlush /\ Fixed

\* stop() of the bare stopwatch: yields the elapsed value.
stopwatchStop(elapsed) ==
  /\ timerHandle.kind = "stopwatch"
  /\ last' = Call("stopwatch.stop", "", "", FALSE, FALSE, elapsed)
  /\ prevLevel' = logLevel
  /\ UNCHANGED <<logLevel, logger, instances, timerHandle>>
  /\ NoDispatch /\ NoFlush /\ Fixed

\* stop() of the labelled handle: an arrow function whose body is the
\* writeLog('info', ...) statement; it returns nothing.
timerStop(elapsed) ==
  LET r == WriteLogOn("info", Format(timerHandle.message, elapsed), <<>>,
                      logLevel, logger, instances)
  IN /\ timerHandle.kind = "labelled"
     /\ Dispatch(r)
     /\ last' = Call("timer.stop", "info", "", FALSE, r.raised, "undefined")

\* log(msg) of the labelled handle.
timerLog(msg, elapsed) ==
  LET r == WriteLogOn("info", Format(msg, elapsed), <<>>, logLevel, logger, instances)
  IN /\ timerHandle.kind = "labelled"
     /\ Dispatch(r)
     /\ last' = Call("timer.log", "info", "", FALSE, r.raised, "undefined")

\* ----------------------------------------------------------- specifications

\* The facade as a whole: every call with every argument.
Next ==
  \/ \E level \in LevelArguments : setLevel(level)
  \/ getLevel
  \/ \E name \in LoggerNames, cls \in LoggerClasses : addLogger(name, cls)
  \/ \E name \in LoggerNames : removeLogger(name)
  \/ \E type \in Types, p \in Payloads : writeLog(type, p.msg, p.data)
  \/ \E level \in LevelNames, p \in Payloads : convenience(level, p.msg, p.data)
  \/ flush
  \/ \E k \in 1..MaxInst, outcome \in {"resolved", "rejected"} : settle(k, outcome)
  \/ \E message \in TimerMessages : timer(message)
  \/ \E elapsed \in ElapsedValues : stopwatchStop(elapsed)
  \/ \E elapsed \in ElapsedValues : timerStop(elapsed)
  \/ \E msg \in LapMessages, elapsed \in ElapsedValues : timerLog(msg, elapsed)

Spec == Init /\ [][Next]_vars

\* The product of threshold, environment, registry, promises and timer handle
\* is beyond exhaustive enumeration, so the facade is checked by component:
\* each specification below runs the calls of one concern of the facade, from
\* the constructions that vary what those calls read.

\* The threshold: every construction, then setLevel and getLevel.
NextLevel ==
  \/ \E level \in LevelArguments : setLevel(level)
  \/ getLevel

SpecLevel == Init /\ [][NextLevel]_vars

\* The threshold of a facade constructed without conf.level, under every
\* NODE_ENV.
SpecDefault == InitNoLevel /\ [][NextLevel]_vars

\* Messages: strings put together from at most MaxSegments pieces, each a
\* character of text or one colour/style escape sequence.
MaxSegments == 3
TextSegments == {<<"m">>, <<"1">>}
EscapeSegments == {<<ESC, "[", "m">>, <<ESC, "[", "1", ";", "3", "1", "m">>}
Segments == TextSegments \cup EscapeSegments
Segmentations == UNION {[1..n -> Segments] : n \in 0..MaxSegments}

RECURSIVE Flatten(_)
Flatten(segs) == IF segs = <<>> THEN <<>> ELSE Head(segs) \o Flatten(Tail(segs))

SegmentedMessages == {Flatten(segs) : segs \in Segmentations}

\* new Logtopus() where logtopus-console-logger and logtopus-file-logger are
\* installed.
Installed == [name \in LoggerNames |-> IF name = "console" THEN "ConsoleLogger" ELSE "FileLogger"]
InitInstalled ==
  \E conf \in {c \in Confs : c.level = Undefined /\ ~c.hasLogger /\ ~c.debugMode} :
    Construct(conf, FALSE, "unset", Installed)

NextMessage ==
  \E msg \in SegmentedMessages : writeLog("error", msg, <<>>)

SpecMessage == InitInstalled /\ [][NextMessage]_vars

\* Filtering and fan-out: every threshold and every type, over the registries a
\* construction can load.
NextFilter ==
  \/ \E level \in LevelArguments : setLevel(level)
  \/ \E type \in Types, p \in Payloads : writeLog(type, p.msg, p.data)
  \/ \E level \in LevelNames, p \in Payloads : convenience(level, p.msg, p.data)

SpecFilter == InitPlain /\ [][NextFilter]_vars

\* The registry: backends added and removed between dispatches of a type that
\* passes the initial threshold and of one that does not.
RegistryTypes == {"error", "debug"}
RegistryMessages == {<<"h", "i">>}

NextRegistry ==
  \/ \E name \in LoggerNames, cls \in LoggerClasses : addLogger(name, cls)
  \/ \E name \in LoggerNames : removeLogger(name)
  \/ \E type \in RegistryTypes, msg \in RegistryMessages : writeLog(type, msg, <<>>)

SpecRegistry == InitPlain /\ [][NextRegistry]_vars

\* flush and the promises of the backends, while backends come and go.
NextFlush ==
  \/ flush
  \/ \E k \in 1..MaxInst, outcome \in {"resolved", "rejected"} : settle(k, outcome)
  \/ \E name \in LoggerNames, cls \in LoggerClasses : addLogger(name, cls)
  \/ \E name \in LoggerNames : removeLogger(name)

SpecFlush == InitPlain /\ [][NextFlush]_vars

\* Every operation on the threshold and the registry side by side: a threshold
\* by name, one from the environment and an argument that raises, and backends
\* whose log() and flush() return or raise, coming and going between dispatches
\* and flushes.
FrameLevels == {"debug", "verbose", NoArgument}
FrameClasses == {"FileLogger", "FaultyLogger"}

\* new Logtopus({logger: {console: ...}}) with logtopus-console-logger
\* installed, with and without debug mode.
InitConsole ==
  \E conf \in {c \in Confs : c.level = Undefined /\ c.hasLogger /\ c.logger = <<"console">>} :
    Construct(conf, FALSE, "unset", Installed)

NextFrame ==
  \/ \E level \in FrameLevels : setLevel(level)
  \/ \E name \in LoggerNames, cls \in FrameClasses : addLogger(name, cls)
  \/ \E name \in LoggerNames : removeLogger(name)
  \/ \E type \in RegistryTypes, msg \in RegistryMessages : writeLog(type, msg, <<>>)
  \/ flush

SpecFrame == InitConsole /\ [][NextFrame]_vars

\* The timer handles, under every threshold a construction can start with.
NextTimer ==
  \/ \E message \in TimerMessages : timer(message)
  \/ \E elapsed \in ElapsedValues : stopwatchStop(elapsed)
  \/ \E elapsed \in ElapsedValues : timerStop(elapsed)
  \/ \E msg \in LapMessages, elapsed \in ElapsedValues : timerLog(msg, elapsed)

SpecTimer == InitAnyLevel /\ [][NextTimer]_vars

\* ------------------------------------------------------------------- claims

\* The last call was a dispatch through writeLog or a convenience method.
IsDispatch == last.op \in {"writeLog", "convenience"}

\* How often instance i had log() invoked by the last call.
Received(i) == Cardinality({k \in 1..Len(delivered) : delivered[k].inst = i})

\* How often instance i had flush() invoked by the last call.
Flushed(i) == Cardinality({k \in 1..Len(flushInvoked) : flushInvoked[k] = i})

\* C1: a dispatch of a recognized level L under a numeric threshold T invokes
\* log() exactly once on every registered backend when rank(L) <= T, and invokes
\* no backend and raises nothing when rank(L) > T.
C1_DispatchByThreshold ==
  (IsDispatch /\ last.arg \in LevelNames /\ logLevel.tag = "number") =>
    IF definedLogLevels[last.arg] <= logLevel.n
      THEN \A i \in Registered(logger) : Received(i) = 1
      ELSE delivered = <<>> /\ ~last.raised

\* C2: when a backend's log() raises during a dispatch that passed the filter,
\* every backend later in registry order still receives the event, and the
\* exception does not reach the caller.
C2_FailureIsolated ==
  (IsDispatch /\ ~Filtered(last.arg, logLevel)) =>
    /\ ~last.raised
    /\ \A k \in 1..Len(logger) :
         LogRaises(instances[logger[k].inst]) =>
           \A j \in (k + 1)..Len(logger) : Received(logger[j].inst) = 1

\* C3: setLevel(name) with a name of the level table sets the threshold to its
\* rank; with any other (non-empty) name it raises and leaves the threshold as
\* it was before the call.
C3_SetLevelByName ==
  (last.op = "setLevel" /\ last.arg \notin {NoArgument, ""}) =>
    IF last.arg \in LevelNames
      THEN ~last.raised /\ logLevel = Num(definedLogLevels[last.arg])
      ELSE last.raised /\ logLevel = prevLevel

\* C4: setLevel() without argument sets the threshold to the default of the
\* environment (production 3, staging and qa 5, test 1, anything else 6),
\* whatever the threshold was before.
C4_SetLevelNoArgument ==
  (last.op = "setLevel" /\ last.arg = NoArgument) =>
    /\ ~last.raised
    /\ logLevel = Num(CASE nodeEnv = "production" -> 3
                        [] nodeEnv \in {"staging", "qa"} -> 5
                        [] nodeEnv = "test" -> 1
                        [] OTHER -> 6)

\* C4's case: under NODE_ENV=test a setLevel() brought the threshold from 7
\* (debug) to 1.
C4_Witness ==
  /\ last.op = "setLevel" /\ last.arg = NoArgument /\ last.changed
  /\ nodeEnv = "test" /\ prevLevel = Num(7) /\ logLevel = Num(1)

\* C5: addLogger on a name that is already registered neither raises nor
\* changes the registry nor constructs an instance, in debug mode or not.
C5_DuplicateAddIsNoOp ==
  (last.op = "addLogger" /\ last.had) => (~last.raised /\ ~last.changed)

\* C6: removeLogger never raises, leaves the registry as it is when the name is
\* not registered, and unregisters the name otherwise; an instance that is not
\* registered is never registered again and no later call invokes its log().
C6_RemoveLogger ==
  [][/\ last'.op = "removeLogger" =>
          /\ ~last'.raised
          /\ ~Has(logger', last'.arg)
          /\ ~Has(logger, last'.arg) => logger' = logger
     /\ \A i \in 1..Len(instances) :
          i \notin Registered(logger) =>
            /\ i \notin Registered(logger')
            /\ logCalls'[i] = logCalls[i]
            /\ \A k \in 1..Len(delivered') : delivered'[k].inst # i]_vars

\* C6's case: a dispatch was delivered while an instance that had received
\* events before its removal is no longer registered.
C6_Witness ==
  /\ last.op = "writeLog" /\ delivered # <<>>
  /\ \E i \in 1..Len(instances) : i \notin Registered(logger) /\ logCalls[i] > 0

\* C7: what flush() returned settles only after every promise the backends'
\* flush() returned has settled.
C7_FlushJoinsAll ==
  flushResult \in {"resolved", "rejected"} => AllSettled(flushArr)

\* C8: a flush() invokes flush() exactly once on every registered backend that
\* has it and on no other, whether or not a flush() fails, and once all have
\* settled its result is a failure exactly when some backend's flush() failed.
C8_FlushEveryBackend ==
  last.op = "flush" =>
    /\ \A i \in Registered(logger) :
         Flushed(i) = IF FlushKind(instances[i]) = "none" THEN 0 ELSE 1
    /\ AllSettled(flushArr) =>
         (flushResult \in {"rejected", "raised"} <=>
            \/ \E k \in 1..Len(flushArr) : flushArr[k].state = "rejected"
            \/ \E i \in Registered(logger) : FlushKind(instances[i]) = "raises")

\* C9: a backend's log() has been invoked exactly as often as events passed
\* the filter while it was registered.
C9_CountEqualsDispatched ==
  \A i \in 1..Len(instances) : logCalls[i] = expected[i]

\* C10: stop() of a labelled timer handle yields the elapsed value, and every
\* registered backend receives exactly one event, of type info.
C10_TimerStop ==
  last.op = "timer.stop" =>
    /\ last.returned \in ElapsedValues
    /\ \A i \in Registered(logger) : Received(i) = 1
    /\ \A k \in 1..Len(delivered) : delivered[k].event.type = "info"

\* C11: writeLog returns the facade itself on every call that returns, on the
\* filtered path and after the fan-out alike.
C11_WriteLogReturnsThis ==
  (last.op = "writeLog" /\ ~last.raised) => last.returned = "this"

\* C12: a dispatch of a type that is no level name is never filtered: under
\* every threshold every registered backend receives it, with that type.
C12_UnknownTypeDelivered ==
  (IsDispatch /\ last.arg \notin LevelNames) =>
    \A i \in Registered(logger) :
      \E k \in 1..Len(delivered) :
        delivered[k].inst = i /\ delivered[k].event.type = last.arg

\* C13: within one dispatch the backends are invoked in the order of their
\* registration, and every backend invoked receives the same type, msg, cmsg,
\* data, time and uptime: the two clock values are read once per dispatch.
C13_OneEventInOrder ==
  IsDispatch =>
    /\ Len(delivered) <= Len(logger)
    /\ \A k \in 1..Len(delivered) :
         /\ delivered[k].inst = logger[k].inst
         /\ delivered[k].event = delivered[1].event
         /\ delivered[k].event.type = last.arg

\* A dispatch reached two backends, the one added after construction last.
C13_Witness ==
  /\ last.op = "writeLog"
  /\ Len(delivered) = 2
  /\ delivered[1].event.msg = <<"h", "i">>
  /\ logger[1].name = "file"

\* The level name of the default rank of the facade's NODE_ENV.
EnvironmentDefaultName ==
  CASE nodeEnv = "production" -> "sys"
    [] nodeEnv \in {"staging", "qa"} -> "res"
    [] nodeEnv = "test" -> "error"
    [] OTHER -> "info"

\* C14: getLevel() called right after setLevel(name), name a recognized level
\* name, returns name; called right after setLevel() with no argument it
\* returns the name of the default rank of the environment.
C14_GetLevelAfterSetLevel ==
  [][(last.op = "setLevel" /\ ~last.raised /\ last'.op = "getLevel") =>
       /\ last.arg \in LevelNames => last'.returned = last.arg
       /\ last.arg = NoArgument => last'.returned = EnvironmentDefaultName]_vars

\* getLevel() answered 'error' in the test environment, where the facade
\* started at sys: a setLevel call brought the threshold there.
C14_Witness ==
  /\ last.op = "getLevel"
  /\ last.returned = "error"
  /\ nodeEnv = "test"

\* C18: a facade constructed without conf.level starts with threshold 3 under
\* every NODE_ENV, and the threshold changes only in a setLevel call: to the
\* rank looked up for a truthy argument, and to the default of the environment
\* only when the call has no argument.
C18_StartsAtSys ==
  /\ logLevel = Num(3)
  /\ [][logLevel' # logLevel =>
          /\ last'.op = "setLevel"
          /\ IF ArgumentTruthy(last'.arg)
               THEN logLevel' = LevelLookup(last'.arg)
               ELSE logLevel' = Num(EnvironmentDefault(nodeEnv))]_vars

\* A facade fresh from its constructor in the test environment, whose default
\* rank is 1: its threshold is 3.
C18_Witness ==
  /\ last.op = "constructor"
  /\ nodeEnv = "test"
  /\ environmentDefault = 1
  /\ logLevel = Num(3)

\* The configured backends whose module resolves and whose constructor returns.
Loadable == SelectSeq(loadPlan, LAMBDA e : e.cls # ModuleNotFound /\ ~CtorRaises(e.cls))

\* C15: the constructor of the facade does not raise, whatever happens to the
\* backends it loads, and it registers every configured backend that resolves
\* and constructs, in configuration order: a failure of one does not end the
\* load of the others.
C15_LoadNeverAborts ==
  last.op = "constructor" =>
    /\ ~last.raised
    /\ Len(logger) = Len(Loadable)
    /\ \A k \in 1..Len(Loadable) :
         /\ logger[k].name = Loadable[k].name
         /\ instances[logger[k].inst] = Loadable[k].cls

\* Two backends configured, diagnostics on: the constructor of the first one
\* raised and the second one is registered.
C15_Witness ==
  /\ last.op = "constructor"
  /\ debugMode
  /\ Len(loadPlan) = 2
  /\ loadPlan[1].cls = "BrokenLogger"
  /\ Len(logger) = 1
  /\ logger[1].name = loadPlan[2].name

\* C16: the diagnostics flag does not influence application logging. Two
\* facades that differ in the flag alone and receive the same calls are in the
\* same state, the flag apart, until a call first ends differently; so the
\* claim says that in every reachable state every next call yields the same
\* registry, the same instances and the same outcome under either value of the
\* flag. setLevel, removeLogger and the fan-out do not read the flag; addLogger
\* does.
C16_DiagnosticsFlagInert ==
  \A name \in LoggerNames, cls \in LoggerClasses :
    AddLoggerTo(logger, instances, TRUE, name, cls)
      = AddLoggerTo(logger, instances, FALSE, name, cls)

\* Every message with a segmentation, paired with the text of that
\* segmentation: its segments that are no escape sequence, put together.
TextOfSegmentations ==
  {<<Flatten(segs), Flatten(SelectSeq(segs, LAMBDA g : g \in TextSegments))>> :
     segs \in Segmentations}

\* C17: the event of a dispatched string message made of text and colour/style
\* escape sequences has the message unchanged as cmsg and the message without
\* its escape sequences as msg, so stripping cmsg yields msg; a message that
\* holds no escape sequence has msg equal to cmsg.
C17_PlainIsStrippedDecorated ==
  \A k \in 1..Len(delivered) :
    LET d == delivered[k]
    IN d.message # <<>> =>
         /\ d.event.cmsg = d.message
         /\ \A p \in TextOfSegmentations : p[1] = d.message => d.event.msg = p[2]
         /\ StripAnsi(d.event.cmsg) = d.event.msg
         /\ (\A i \in 1..Len(d.message) : d.message[i] # ESC) => d.event.msg = d.event.cmsg

\* A message of two escape sequences around the character m reached a backend,
\* which got the character alone as msg.
C17_Witness ==
  /\ last.op = "writeLog"
  /\ Len(delivered) > 0
  /\ delivered[1].message = <<ESC, "[", "1", ";", "3", "1", "m", "m", ESC, "[", "m">>
  /\ delivered[1].event.msg = <<"m">>

\* The entries of a registry under the names other than name, in order.
Others(lg, name) == SelectSeq(lg, LAMBDA e : e.name # name)

\* C19: a dispatch, delivered or filtered, and flush() leave the threshold and
\* the registry as they are; setLevel leaves the registry and its backends as
\* they are; addLogger and removeLogger leave the threshold as it is and keep
\* the entries under every other name, with their backends, in their order.
C19_Frame ==
  [][/\ last'.op \in {"writeLog", "convenience", "flush"} =>
          logLevel' = logLevel /\ logger' = logger /\ instances' = instances
     /\ last'.op = "setLevel" => logger' = logger /\ instances' = instances
     /\ last'.op \in {"addLogger", "removeLogger"} =>
          /\ logLevel' = logLevel
          /\ Others(logger', last'.arg) = Others(logger, last'.arg)
          /\ \A i \in 1..Len(instances) : instances'[i] = instances[i]]_vars

\* addLogger registered a second backend on a facade whose threshold had been
\* set to debug.
C19_Witness ==
  /\ last.op = "addLogger"
  /\ last.changed
  /\ Len(logger) = 2
  /\ logLevel = Num(7)

====
